---------------------------- MODULE Spec2Model ----------------------------
(***************************************************************************)
(* PolishPal: the change analyzer (ProofreadingService.analyzeChanges and  *)
(* ProofreadingService.isSpellingError) of src/src/index.js, which is      *)
(* repeated verbatim in src/functions/api.js, src/src/index.ts and         *)
(* src/src/services/recordService.js.                                      *)
(*                                                                         *)
(* A JavaScript string is modelled as a sequence of one-character strings. *)
(* Positions in annotations are zero-based as in the source; sequences are *)
(* one-based, so words[i] of the source is words[i + 1] here.              *)
(***************************************************************************)
EXTENDS Integers, Sequences, FiniteSets, TLC

(***************************************************************************)
(* Bounds of the model.                                                    *)
(***************************************************************************)
\* longest input text drawn from Alphabet
MaxLen == 3
\* longest word handed to isSpellingError on its own
MaxWordLen == 5

\* characters the bounded input texts are drawn from: two lower-case letters,
\* an upper-case letter and a character of the regular expression class \s
\* (runs of mixed whitespace characters are among the Examples)
Alphabet == {"i", "a", "I", " "}
\* characters the bounded words are drawn from
Letters == {"i", "a"}

\* all sequences over S of length at most n
SeqsUpTo(S, n) == UNION {[1..k -> S] : k \in 0..n}

Min(a, b) == IF a < b THEN a ELSE b
Max(a, b) == IF a > b THEN a ELSE b
Abs(a) == IF a < 0 THEN 0 - a ELSE a

(***************************************************************************)
(* String primitives of the JavaScript runtime that the analyzer uses.     *)
(***************************************************************************)
UpperCase == <<"A","B","C","D","E","F","G","H","I","J","K","L","M",
               "N","O","P","Q","R","S","T","U","V","W","X","Y","Z">>
LowerCase == <<"a","b","c","d","e","f","g","h","i","j","k","l","m",
               "n","o","p","q","r","s","t","u","v","w","x","y","z">>

\* String.prototype.toLowerCase on one character
toLowerChar(c) ==
    IF \E k \in 1..26 : UpperCase[k] = c
    THEN LowerCase[CHOOSE k \in 1..26 : UpperCase[k] = c]
    ELSE c

\* String.prototype.toLowerCase
toLowerCase(s) == [k \in 1..Len(s) |-> toLowerChar(s[k])]

\* the regular expression class \s
IsWhitespace(c) == c \in {" ", "\t", "\n", "\r", "\f"}

\* the least element of a non-empty set of integers
least(S) == CHOOSE x \in S : \A y \in S : x <= y

\* String.prototype.split(/\s+/): a maximal whitespace run is one separator.
\* A piece starts at index 1 and right after the end of every separator; the
\* pieces before the first and after the last separator are kept even when
\* they are empty.  (Defined without recursion over the characters, so that
\* texts as long as the character cap can be split.)
pieceStarts(s) ==
    {1} \cup {k + 1 : k \in {j \in 1..Len(s) :
                 IsWhitespace(s[j]) /\ (j = Len(s) \/ ~IsWhitespace(s[j + 1]))}}

\* the index of the last character of the piece that starts at p (p - 1 for
\* an empty piece)
pieceEnd(s, p) ==
    least({q \in p..Len(s) : IsWhitespace(s[q])} \cup {Len(s) + 1}) - 1

split(s) ==
    LET starts == pieceStarts(s)
    IN [n \in 1..Cardinality(starts) |->
          LET p == CHOOSE x \in starts : Cardinality({y \in starts : y < x}) = n - 1
          IN SubSeq(s, p, pieceEnd(s, p))]

\* a string literal of the source, as a sequence of characters
AddPrefix == <<"A", "d", "d", " ", "\"">>
RemovePrefix == <<"R", "e", "m", "o", "v", "e", " ", "\"">>
Quote == <<"\"">>
\* the literal `" → "` between the two words; "->" stands for U+2192
ArrowInfix == <<"\"", " ", "->", " ", "\"">>
CapitalizeI == <<"C","a","p","i","t","a","l","i","z","e"," ","\"","I","\"">>

(***************************************************************************)
(* ProofreadingService.isSpellingError                                     *)
(***************************************************************************)
\* the for loop of isSpellingError: the number of indices i < minLength,
\* counted from index k on, at which the two words carry the same character
RECURSIVE countCommonChars(_, _, _, _)
countCommonChars(word1, word2, k, minLength) ==
    IF k > minLength THEN 0
    ELSE (IF word1[k] = word2[k] THEN 1 ELSE 0)
         + countCommonChars(word1, word2, k + 1, minLength)

\* a slip: >= in place of >
ratioAbove06_ge(commonChars, minLength) == 10 * commonChars >= 6 * minLength

\* commonChars / minLength > 0.6 on IEEE doubles; for the lengths of the
\* model the quotient is exact enough that this is 10 * c > 6 * m
ratioAbove06(commonChars, minLength) == 10 * commonChars > 6 * minLength

\* a slip: the early return for an empty word is missing
reachesRatio_noEmptyCheck(word1, word2) ==
    ~(Abs(Len(word1) - Len(word2)) > 2)

\* a slip: Math.abs is missing from the length difference
reachesRatio_oneSidedDiff(word1, word2) ==
    /\ ~(word1 = <<>> \/ word2 = <<>>)
    /\ ~(Len(word1) - Len(word2) > 2)

\* neither early return is taken, so the ratio commonChars / minLength is
\* computed: both words are non-empty and lengthDiff is at most 2
reachesRatio(word1, word2) ==
    /\ ~(word1 = <<>> \/ word2 = <<>>)
    /\ ~(Abs(Len(word1) - Len(word2)) > 2)

isSpellingError(word1, word2) ==
    IF ~reachesRatio(word1, word2) THEN FALSE
    ELSE LET minLength == Min(Len(word1), Len(word2))
         IN ratioAbove06(countCommonChars(word1, word2, 1, minLength),
                         minLength)

(***************************************************************************)
(* ProofreadingService.analyzeChanges                                      *)
(***************************************************************************)
\* words[i] || '' for a zero-based i: a missing element and an empty string
\* both give the empty string
wordAt(words, i) == IF i + 1 <= Len(words) THEN words[i + 1] ELSE <<>>

\* a slip: the spelling branch is missing, so every changed word is grammar
classify_noSpelling(originalWord, correctedWord) ==
    IF originalWord = <<>> /\ correctedWord # <<>>
    THEN [type |-> "missing_word",
          suggestion |-> AddPrefix \o correctedWord \o Quote]
    ELSE IF originalWord # <<>> /\ correctedWord = <<>>
    THEN [type |-> "extra_word",
          suggestion |-> RemovePrefix \o originalWord \o Quote]
    ELSE [type |-> "grammar",
          suggestion |-> Quote \o originalWord \o ArrowInfix \o correctedWord \o Quote]

\* a slip: the two one-sided branches are exchanged
classify_swapMissingExtra(originalWord, correctedWord) ==
    IF originalWord = <<>> /\ correctedWord # <<>>
    THEN [type |-> "extra_word",
          suggestion |-> RemovePrefix \o correctedWord \o Quote]
    ELSE IF originalWord # <<>> /\ correctedWord = <<>>
    THEN [type |-> "missing_word",
          suggestion |-> AddPrefix \o originalWord \o Quote]
    ELSE IF isSpellingError(originalWord, correctedWord)
    THEN [type |-> "spelling",
          suggestion |-> Quote \o originalWord \o ArrowInfix \o correctedWord \o Quote]
    ELSE [type |-> "grammar",
          suggestion |-> Quote \o originalWord \o ArrowInfix \o correctedWord \o Quote]

\* a slip: the last branch sets the suggestion but leaves errorType at its
\* initial value
classify_grammarKeepsUnknown(originalWord, correctedWord) ==
    IF originalWord = <<>> /\ correctedWord # <<>>
    THEN [type |-> "missing_word",
          suggestion |-> AddPrefix \o correctedWord \o Quote]
    ELSE IF originalWord # <<>> /\ correctedWord = <<>>
    THEN [type |-> "extra_word",
          suggestion |-> RemovePrefix \o originalWord \o Quote]
    ELSE IF isSpellingError(originalWord, correctedWord)
    THEN [type |-> "spelling",
          suggestion |-> Quote \o originalWord \o ArrowInfix \o correctedWord \o Quote]
    ELSE IF originalWord = <<"i">> /\ correctedWord = <<"i">>
    THEN [type |-> "capitalization", suggestion |-> CapitalizeI]
    ELSE [type |-> "unknown",
          suggestion |-> Quote \o originalWord \o ArrowInfix \o correctedWord \o Quote]

\* the if / else-if chain that determines errorType and suggestion
classify(originalWord, correctedWord) ==
    IF originalWord = <<>> /\ correctedWord # <<>>
    THEN [type |-> "missing_word",
          suggestion |-> AddPrefix \o correctedWord \o Quote]
    ELSE IF originalWord # <<>> /\ correctedWord = <<>>
    THEN [type |-> "extra_word",
          suggestion |-> RemovePrefix \o originalWord \o Quote]
    ELSE IF isSpellingError(originalWord, correctedWord)
    THEN [type |-> "spelling",
          suggestion |-> Quote \o originalWord \o ArrowInfix \o correctedWord \o Quote]
    ELSE IF originalWord = <<"i">> /\ correctedWord = <<"i">>
    THEN [type |-> "capitalization", suggestion |-> CapitalizeI]
    ELSE [type |-> "grammar",
          suggestion |-> Quote \o originalWord \o ArrowInfix \o correctedWord \o Quote]

\* the object pushed onto analysis for position i
annotation(i, originalWord, correctedWord) ==
    LET c == classify(originalWord, correctedWord)
    IN [position |-> i, original |-> originalWord, corrected |-> correctedWord,
        type |-> c.type, suggestion |-> c.suggestion]

\* a slip: a position is compared only when both sides have a word
loopBody_bothPresent(originalWords, correctedWords, i, acc) ==
    LET originalWord == wordAt(originalWords, i)
        correctedWord == wordAt(correctedWords, i)
    IN IF originalWord # <<>> /\ correctedWord # <<>> /\ originalWord # correctedWord
       THEN Append(acc, annotation(i, originalWord, correctedWord))
       ELSE acc

\* a slip: unshift in place of push
loopBody_unshift(originalWords, correctedWords, i, acc) ==
    LET originalWord == wordAt(originalWords, i)
        correctedWord == wordAt(correctedWords, i)
    IN IF originalWord # correctedWord
       THEN <<annotation(i, originalWord, correctedWord)>> \o acc
       ELSE acc

\* one iteration of the for loop: the analysis after position i
loopBody(originalWords, correctedWords, i, acc) ==
    LET originalWord == wordAt(originalWords, i)
        correctedWord == wordAt(correctedWords, i)
    IN IF originalWord # correctedWord
       THEN Append(acc, annotation(i, originalWord, correctedWord))
       ELSE acc

\* the for loop from position i on
RECURSIVE analyzeLoop(_, _, _, _, _)
analyzeLoop(originalWords, correctedWords, i, maxLength, acc) ==
    IF i < maxLength
    THEN analyzeLoop(originalWords, correctedWords, i + 1, maxLength,
                     loopBody(originalWords, correctedWords, i, acc))
    ELSE acc

\* a slip: only the original text is lower-cased
analyzeChanges_oneSideLower(orig, corr) ==
    LET originalWords == split(toLowerCase(orig))
        correctedWords == split(corr)
        maxLength == Max(Len(originalWords), Len(correctedWords))
    IN analyzeLoop(originalWords, correctedWords, 0, maxLength, <<>>)

analyzeChanges(orig, corr) ==
    LET originalWords == split(toLowerCase(orig))
        correctedWords == split(toLowerCase(corr))
        maxLength == Max(Len(originalWords), Len(correctedWords))
    IN analyzeLoop(originalWords, correctedWords, 0, maxLength, <<>>)

(***************************************************************************)
(* The copy of the analyzer in src/functions/api.js (Pages function).      *)
(***************************************************************************)
api_isSpellingError(word1, word2) ==
    IF word1 = <<>> \/ word2 = <<>> THEN FALSE
    ELSE LET lengthDiff == Abs(Len(word1) - Len(word2))
             minLength == Min(Len(word1), Len(word2))
         IN IF lengthDiff > 2 THEN FALSE
            ELSE 10 * countCommonChars(word1, word2, 1, minLength)
                     > 6 * minLength

api_classify(originalWord, correctedWord) ==
    IF originalWord = <<>> /\ correctedWord # <<>>
    THEN [type |-> "missing_word",
          suggestion |-> AddPrefix \o correctedWord \o Quote]
    ELSE IF originalWord # <<>> /\ correctedWord = <<>>
    THEN [type |-> "extra_word",
          suggestion |-> RemovePrefix \o originalWord \o Quote]
    ELSE IF api_isSpellingError(originalWord, correctedWord)
    THEN [type |-> "spelling",
          suggestion |-> Quote \o originalWord \o ArrowInfix \o correctedWord \o Quote]
    ELSE IF originalWord = <<"i">> /\ correctedWord = <<"i">>
    THEN [type |-> "capitalization", suggestion |-> CapitalizeI]
    ELSE [type |-> "grammar",
          suggestion |-> Quote \o originalWord \o ArrowInfix \o correctedWord \o Quote]

api_loopBody(originalWords, correctedWords, i, acc) ==
    LET originalWord == wordAt(originalWords, i)
        correctedWord == wordAt(correctedWords, i)
        c == api_classify(originalWord, correctedWord)
    IN IF originalWord # correctedWord
       THEN Append(acc, [position |-> i, original |-> originalWord,
                         corrected |-> correctedWord, type |-> c.type,
                         suggestion |-> c.suggestion])
       ELSE acc

RECURSIVE api_analyzeLoop(_, _, _, _, _)
api_analyzeLoop(originalWords, correctedWords, i, maxLength, acc) ==
    IF i < maxLength
    THEN api_analyzeLoop(originalWords, correctedWords, i + 1, maxLength,
                        api_loopBody(originalWords, correctedWords, i, acc))
    ELSE acc

api_analyzeChanges(orig, corr) ==
    LET originalWords == split(toLowerCase(orig))
        correctedWords == split(toLowerCase(corr))
        maxLength == Max(Len(originalWords), Len(correctedWords))
    IN api_analyzeLoop(originalWords, correctedWords, 0, maxLength, <<>>)

(***************************************************************************)
(* The copy of the analyzer in src/src/index.ts (Worker, TypeScript).      *)
(***************************************************************************)
ts_isSpellingError(word1, word2) ==
    IF word1 = <<>> \/ word2 = <<>> THEN FALSE
    ELSE LET lengthDiff == Abs(Len(word1) - Len(word2))
             minLength == Min(Len(word1), Len(word2))
         IN IF lengthDiff > 2 THEN FALSE
            ELSE 10 * countCommonChars(word1, word2, 1, minLength)
                     > 6 * minLength

ts_classify(originalWord, correctedWord) ==
    IF originalWord = <<>> /\ correctedWord # <<>>
    THEN [type |-> "missing_word",
          suggestion |-> AddPrefix \o correctedWord \o Quote]
    ELSE IF originalWord # <<>> /\ correctedWord = <<>>
    THEN [type |-> "extra_word",
          suggestion |-> RemovePrefix \o originalWord \o Quote]
    ELSE IF ts_isSpellingError(originalWord, correctedWord)
    THEN [type |-> "spelling",
          suggestion |-> Quote \o originalWord \o ArrowInfix \o correctedWord \o Quote]
    ELSE IF originalWord = <<"i">> /\ correctedWord = <<"i">>
    THEN [type |-> "capitalization", suggestion |-> CapitalizeI]
    ELSE [type |-> "grammar",
          suggestion |-> Quote \o originalWord \o ArrowInfix \o correctedWord \o Quote]

ts_loopBody(originalWords, correctedWords, i, acc) ==
    LET originalWord == wordAt(originalWords, i)
        correctedWord == wordAt(correctedWords, i)
        c == ts_classify(originalWord, correctedWord)
    IN IF originalWord # correctedWord
       THEN Append(acc, [position |-> i, original |-> originalWord,
                         corrected |-> correctedWord, type |-> c.type,
                         suggestion |-> c.suggestion])
       ELSE acc

RECURSIVE ts_analyzeLoop(_, _, _, _, _)
ts_analyzeLoop(originalWords, correctedWords, i, maxLength, acc) ==
    IF i < maxLength
    THEN ts_analyzeLoop(originalWords, correctedWords, i + 1, maxLength,
                        ts_loopBody(originalWords, correctedWords, i, acc))
    ELSE acc

\* a slip in one copy only: the corrected text is not lower-cased
ts_analyzeChanges_oneSideLower(orig, corr) ==
    LET originalWords == split(toLowerCase(orig))
        correctedWords == split(corr)
        maxLength == Max(Len(originalWords), Len(correctedWords))
    IN ts_analyzeLoop(originalWords, correctedWords, 0, maxLength, <<>>)

ts_analyzeChanges(orig, corr) ==
    LET originalWords == split(toLowerCase(orig))
        correctedWords == split(toLowerCase(corr))
        maxLength == Max(Len(originalWords), Len(correctedWords))
    IN ts_analyzeLoop(originalWords, correctedWords, 0, maxLength, <<>>)

(***************************************************************************)
(* The copy in src/src/services/recordService.js (Express service).        *)
(***************************************************************************)
express_isSpellingError(word1, word2) ==
    IF word1 = <<>> \/ word2 = <<>> THEN FALSE
    ELSE LET lengthDiff == Abs(Len(word1) - Len(word2))
             minLength == Min(Len(word1), Len(word2))
         IN IF lengthDiff > 2 THEN FALSE
            ELSE 10 * countCommonChars(word1, word2, 1, minLength)
                     > 6 * minLength

express_classify(originalWord, correctedWord) ==
    IF originalWord = <<>> /\ correctedWord # <<>>
    THEN [type |-> "missing_word",
          suggestion |-> AddPrefix \o correctedWord \o Quote]
    ELSE IF originalWord # <<>> /\ correctedWord = <<>>
    THEN [type |-> "extra_word",
          suggestion |-> RemovePrefix \o originalWord \o Quote]
    ELSE IF express_isSpellingError(originalWord, correctedWord)
    THEN [type |-> "spelling",
          suggestion |-> Quote \o originalWord \o ArrowInfix \o correctedWord \o Quote]
    ELSE IF originalWord = <<"i">> /\ correctedWord = <<"i">>
    THEN [type |-> "capitalization", suggestion |-> CapitalizeI]
    ELSE [type |-> "grammar",
          suggestion |-> Quote \o originalWord \o ArrowInfix \o correctedWord \o Quote]

express_loopBody(originalWords, correctedWords, i, acc) ==
    LET originalWord == wordAt(originalWords, i)
        correctedWord == wordAt(correctedWords, i)
        c == express_classify(originalWord, correctedWord)
    IN IF originalWord # correctedWord
       THEN Append(acc, [position |-> i, original |-> originalWord,
                         corrected |-> correctedWord, type |-> c.type,
                         suggestion |-> c.suggestion])
       ELSE acc

RECURSIVE express_analyzeLoop(_, _, _, _, _)
express_analyzeLoop(originalWords, correctedWords, i, maxLength, acc) ==
    IF i < maxLength
    THEN express_analyzeLoop(originalWords, correctedWords, i + 1, maxLength,
                        express_loopBody(originalWords, correctedWords, i, acc))
    ELSE acc

express_analyzeChanges(orig, corr) ==
    LET originalWords == split(toLowerCase(orig))
        correctedWords == split(toLowerCase(corr))
        maxLength == Max(Len(originalWords), Len(correctedWords))
    IN express_analyzeLoop(originalWords, correctedWords, 0, maxLength, <<>>)

(***************************************************************************)
(* POST /api/proofread: values of the request and of the provider.         *)
(*                                                                         *)
(* A JSON value is a record with its JavaScript type; a string carries its *)
(* characters.  An error message is a sequence of phrases, and             *)
(* String.prototype.includes is containment of a run of phrases.           *)
(***************************************************************************)
\* the character cap of the request text
MaxTextLength == 5000

Undefined == [type |-> "undefined"]
Null == [type |-> "null"]
Number(n) == [type |-> "number", value |-> n]
Boolean(b) == [type |-> "boolean", value |-> b]
Array == [type |-> "array"]
String(chars) == [type |-> "string", value |-> chars]

\* the typeof operator
typeOf(v) ==
    IF v.type \in {"null", "array"} THEN "object" ELSE v.type

\* ToBoolean: the value is truthy
truthy(v) ==
    CASE v.type = "undefined" -> FALSE
      [] v.type = "null" -> FALSE
      [] v.type = "number" -> v.value # 0
      [] v.type = "boolean" -> v.value
      [] v.type = "array" -> TRUE
      [] v.type = "string" -> Len(v.value) > 0

\* String.prototype.trim
trim(s) ==
    IF \A k \in 1..Len(s) : IsWhitespace(s[k]) THEN <<>>
    ELSE SubSeq(s,
                CHOOSE k \in 1..Len(s) :
                    ~IsWhitespace(s[k]) /\ \A j \in 1..(k - 1) : IsWhitespace(s[j]),
                Len(s) + 1 - (CHOOSE k \in 1..Len(s) :
                    /\ ~IsWhitespace(s[Len(s) + 1 - k])
                    /\ \A j \in 1..(k - 1) : IsWhitespace(s[Len(s) + 1 - j])))

\* String.prototype.includes on messages
includes(message, phrases) ==
    \E k \in 1..(Len(message) - Len(phrases) + 1) :
        SubSeq(message, k, k + Len(phrases) - 1) = phrases

KeyNotConfigured == <<"OpenAI API key not configured">>
OpenAIAPIError == <<"OpenAI API error">>

\* the message of the Error thrown for a response that is not ok:
\* `OpenAI API error: ${response.status} - ${errorData.error?.message || 'Unknown error'}`
apiErrorMessage(statusText, errorMessage) ==
    OpenAIAPIError \o <<": ", statusText, " - ">>
        \o (IF errorMessage = <<>> THEN <<"Unknown error">> ELSE errorMessage)

\* the message of the Error the catch block of proofreadText throws:
\* `Failed to proofread text: ${error.message}`
wrappedMessage(message) == <<"Failed to proofread text: ">> \o message

\* a slip: the error phrases are tested in the other order
workerCatch_apiErrorFirst(message) ==
    IF includes(message, OpenAIAPIError)
    THEN [status |-> 502, error |-> "AI service error"]
    ELSE IF includes(message, KeyNotConfigured)
    THEN [status |-> 503, error |-> "Service temporarily unavailable"]
    ELSE [status |-> 500, error |-> "Failed to process text"]

\* the catch block of the Worker's fetch handler: the response for a thrown
\* error with this message
workerCatch(message) ==
    IF includes(message, KeyNotConfigured)
    THEN [status |-> 503, error |-> "Service temporarily unavailable"]
    ELSE IF includes(message, OpenAIAPIError)
    THEN [status |-> 502, error |-> "AI service error"]
    ELSE [status |-> 500, error |-> "Failed to process text"]

\* the catch block of the Pages function and of the Express route
plainCatch(message) == [status |-> 500, error |-> "Failed to process text"]

\* the catch block of the variant
catchResponse(v, message) ==
    IF v = "worker" THEN workerCatch(message) ELSE plainCatch(message)

\* a slip: a text exactly at the cap is rejected
tooLong_ge(t) == t.type = "string" /\ Len(t.value) >= MaxTextLength

\* text.length > 5000 (length is a number above the cap only for a string)
tooLong(t) == t.type = "string" /\ Len(t.value) > MaxTextLength

\* a slip: the test !text is missing, so the empty string passes
invalidText_emptyAllowed(t) == typeOf(t) # "string"

\* !text || typeof text !== 'string'
invalidText(t) == ~truthy(t) \/ typeOf(t) # "string"

\* the 400 answer for the text t, or no answer (status 0) when t is valid
validationResponse(t) ==
    IF invalidText(t)
    THEN [status |-> 400, error |-> "Text is required and must be a string"]
    ELSE IF tooLong(t)
    THEN [status |-> 400, error |-> "Text must be less than 5000 characters"]
    ELSE [status |-> 0]

\* const { text } = await request.json() (req.body in the Express route):
\* the destructured text, or the message of the error thrown
parseBody(b) ==
    CASE b.kind = "malformed" ->
             [threw |-> TRUE, message |-> <<"Unexpected token in JSON">>]
      [] b.kind = "null" ->
             [threw |-> TRUE,
              message |-> <<"Cannot destructure property 'text'">>]
      [] b.kind = "primitive" -> [threw |-> FALSE, text |-> Undefined]
      [] b.kind = "object" -> [threw |-> FALSE, text |-> b.text]

(***************************************************************************)
(* ProofreadingService.mockProofread of the Pages function and the Express *)
(* service: a chain of global regular-expression replacements.             *)
(*                                                                         *)
(* The matches of a regular expression in s are a function from the index  *)
(* where a match starts to the index right after its end.                  *)
(***************************************************************************)
\* the regular expression class \w
isWordChar(c) ==
    \/ \E k \in 1..26 : LowerCase[k] = c \/ UpperCase[k] = c
    \/ c \in {"0", "1", "2", "3", "4", "5", "6", "7", "8", "9", "_"}

\* s has a word character at index k
hasWordCharAt(s, k) == k \in 1..Len(s) /\ isWordChar(s[k])

\* the assertion \b right before index k
wordBoundary(s, k) == hasWordCharAt(s, k - 1) # hasWordCharAt(s, k)

\* the characters of w stand in s from index k on
literalAt(s, k, w) ==
    k + Len(w) - 1 <= Len(s) /\ SubSeq(s, k, k + Len(w) - 1) = w

\* the index right after the maximal whitespace run that starts at index k
\* (k itself when there is no whitespace at k)
runEnd(s, k) == least({q \in k..Len(s) : ~IsWhitespace(s[q])} \cup {Len(s) + 1})

\* String.prototype.replace with a global regular expression: the text from
\* index from on, every match replaced by rep; the scan goes left to right
\* and resumes right after a match, so a match that starts inside an earlier
\* one is passed over
RECURSIVE replaceFrom(_, _, _, _)
replaceFrom(s, from, matches, rep) ==
    IF DOMAIN matches = {} THEN SubSeq(s, from, Len(s))
    ELSE LET k == least(DOMAIN matches)
             rest == [j \in DOMAIN matches \ {k} |-> matches[j]]
         IN IF k < from THEN replaceFrom(s, from, rest, rep)
            ELSE SubSeq(s, from, k - 1) \o rep
                     \o replaceFrom(s, matches[k], rest, rep)

replaceAll(s, matches, rep) == replaceFrom(s, 1, matches, rep)

\* the matches of \bword\b
wordMatches(s, word) ==
    LET starts == {k \in 1..Len(s) :
                      /\ literalAt(s, k, word)
                      /\ wordBoundary(s, k)
                      /\ wordBoundary(s, k + Len(word))}
    IN [k \in starts |-> k + Len(word)]

\* the matches of \bno\b(?=\s+make): the lookahead is not part of the match
noBeforeMakeMatches(s) ==
    LET no == <<"n", "o">>
        starts == {k \in 1..Len(s) :
                      /\ literalAt(s, k, no)
                      /\ wordBoundary(s, k)
                      /\ wordBoundary(s, k + 2)
                      /\ runEnd(s, k + 2) > k + 2
                      /\ literalAt(s, runEnd(s, k + 2), <<"m", "a", "k", "e">>)}
    IN [k \in starts |-> k + 2]

\* the matches of \bfirst\s+second
twoWordMatches(s, first, second) ==
    LET starts == {k \in 1..Len(s) :
                      /\ literalAt(s, k, first)
                      /\ wordBoundary(s, k)
                      /\ runEnd(s, k + Len(first)) > k + Len(first)
                      /\ literalAt(s, runEnd(s, k + Len(first)), second)}
    IN [k \in starts |-> runEnd(s, k + Len(first)) + Len(second)]

\* the matches of \s+
whitespaceMatches(s) ==
    LET starts == {k \in 1..Len(s) :
                      IsWhitespace(s[k]) /\ (k = 1 \/ ~IsWhitespace(s[k - 1]))}
    IN [k \in starts |-> runEnd(s, k)]

\* the matches of \s+\.
whitespaceDotMatches(s) ==
    LET starts == {k \in 1..Len(s) :
                      /\ IsWhitespace(s[k]) /\ (k = 1 \/ ~IsWhitespace(s[k - 1]))
                      /\ literalAt(s, runEnd(s, k), <<".">>)}
    IN [k \in starts |-> runEnd(s, k) + 1]

\* String.prototype.toUpperCase on one character
toUpperChar(c) ==
    IF \E k \in 1..26 : LowerCase[k] = c
    THEN UpperCase[CHOOSE k \in 1..26 : LowerCase[k] = c]
    ELSE c

\* corrected.charAt(0).toUpperCase() + corrected.slice(1)
capitalizeFirst(s) ==
    IF s = <<>> THEN <<>> ELSE <<toUpperChar(s[1])>> \o SubSeq(s, 2, Len(s))

mockProofread(t) ==
    LET r1 == replaceAll(t, wordMatches(t, <<"i">>), <<"I">>)
        r2 == replaceAll(r1, wordMatches(r1, <<"w","o","l","d">>),
                         <<"w","o","u","l","d">>)
        r3 == replaceAll(r2, noBeforeMakeMatches(r2), <<"n","o","t">>)
        r4 == replaceAll(r3, wordMatches(r3, <<"m","i","s","t","a","k">>),
                         <<"m","i","s","t","a","k","e">>)
        r5 == replaceAll(r4, twoWordMatches(r4, <<"a","g","a","i","n">>,
                                            <<"m","i","s","t","a","k","e">>),
                         <<"m","i","s","t","a","k","e"," ","a","g","a","i","n">>)
        r6 == replaceAll(r5, twoWordMatches(r5, <<"m","a","k","e">>,
                                            <<"s","a","m","e">>),
                         <<"m","a","k","e"," ","t","h","e"," ","s","a","m","e">>)
        r7 == replaceAll(r6, whitespaceMatches(r6), <<" ">>)
        r8 == replaceAll(r7, whitespaceDotMatches(r7), <<".">>)
    IN capitalizeFirst(trim(r8))

(***************************************************************************)
(* State: one call of analyzeChanges and one call of isSpellingError.      *)
(***************************************************************************)
VARIABLES
    original,   \* the first argument of analyzeChanges
    corrected,  \* the second argument of analyzeChanges
    analysis,   \* the list analyzeChanges returned
    word1,      \* the first argument of isSpellingError
    word2,      \* the second argument of isSpellingError
    spelling,   \* the boolean isSpellingError returned
    pc,         \* "call" before the function has run, "done" after it returned
    variant,    \* the deployment that handles the request: "worker" (src/index.js
                \* and src/index.ts), "pages" (functions/api.js), "express"
    body,       \* the body of the POST /api/proofread request
    apiKey,     \* env.OPENAI_API_KEY (env.OPENAI_TOKEN) is configured
    hpc,        \* where the request handler stands
    text,       \* the text destructured from the body
    proofreadCalls, \* the number of calls of proofreadText
    outbound,   \* the number of requests sent to the chat-completion endpoint
    upstream,   \* how the chat-completion request settled; kind "none" before
    records,    \* the records saved by RecordService.saveRecord
    response,   \* the response of the handler; status 0 while there is none
    recordsDir, \* the records directory of the Express variant exists
    ensurePc,   \* where the constructor's ensureRecordsDirectory stands
    writeError, \* the error fs.writeFile of saveRecord rejected with, or "none"
    got,        \* the response of GET /api/records/:id; status 0 before
    service,    \* the own properties of the module-level proofreadingService
    reqs,       \* the requests the Pages function handles concurrently
    disabled,   \* the disabled property of the proofread button of the page
    calls,      \* the calls of PolishPal.proofreadText that sent a request
    errorShown  \* the message of the last showError of the page, or <<>>

analyzerVars == <<original, corrected, analysis, word1, word2, spelling, pc>>
httpVars == <<variant, body, apiKey, hpc, text, proofreadCalls, outbound,
              upstream, records, response>>
recordVars == <<recordsDir, ensurePc, writeError, got>>
concVars == <<service, reqs>>
clientVars == <<disabled, calls, errorShown>>
vars == <<original, corrected, analysis, word1, word2, spelling, pc,
          variant, body, apiKey, hpc, text, proofreadCalls, outbound,
          upstream, records, response, recordsDir, ensurePc, writeError, got,
          service, reqs, disabled, calls, errorShown>>

\* new ProofreadingService() of functions/api.js: the class has no
\* constructor and no fields, the instance has no own property
NewService == <<>>

\* no concurrent requests are being handled
ConcIdle == service = NewService /\ reqs = <<>>

\* no page is open
ClientIdle == disabled = FALSE /\ calls = <<>> /\ errorShown = <<>>

\* no RecordService is running
RecordIdle ==
    /\ recordsDir = FALSE /\ ensurePc = "done" /\ writeError = "none"
    /\ got = [status |-> 0]

\* no request is being handled
HttpIdle ==
    /\ RecordIdle
    /\ variant = "none" /\ body = [kind |-> "none"] /\ apiKey = FALSE
    /\ hpc = "idle" /\ text = Undefined
    /\ proofreadCalls = 0 /\ outbound = 0 /\ records = <<>>
    /\ upstream = [kind |-> "none"]
    /\ response = [status |-> 0]

\* "text" as the sequence of its characters
README_Input == <<"i"," ","w","o","l","d"," ","n","o"," ","m","a","k","e"," ",
                  "s","a","m","e"," ","a","g","a","i","n"," ",
                  "m","i","s","t","a","k"," ",".">>
README_Output == <<"I"," ","w","o","u","l","d"," ","n","o","t"," ",
                   "m","a","k","e"," ","t","h","e"," ","s","a","m","e"," ",
                   "m","i","s","t","a","k","e"," ","a","g","a","i","n",".">>
HelloWorld == <<"h","e","l","l","o"," ","w","o","r","l","d">>
HelloWorldExtra == HelloWorld \o <<" ","e","x","t","r","a">>

\* texts with tabs and line breaks between and around the words
TabbedText == <<"a", "\t", "\n", "i", " ", "\r", "a">>
LineText == <<"\n", "A", " ", "i", "a", "\n">>

\* the documented examples of the analyzer, and texts with other whitespace
Examples == {<<README_Input, README_Output>>,
             <<HelloWorld, HelloWorldExtra>>,
             <<HelloWorldExtra, HelloWorld>>,
             <<TabbedText, LineText>>,
             <<LineText, TabbedText>>,
             <<TabbedText, <<"a", " ", "i", " ", "a">> >>,
             <<LineText, LineText>>}

Texts == SeqsUpTo(Alphabet, MaxLen)
Words == SeqsUpTo(Letters, MaxWordLen)

\* a call of analyzeChanges on two bounded texts or on a documented example
Init ==
    /\ \/ original \in Texts /\ corrected \in Texts
       \/ \E e \in Examples : original = e[1] /\ corrected = e[2]
    /\ analysis = <<>>
    /\ word1 = <<>> /\ word2 = <<>> /\ spelling = FALSE
    /\ pc = "call"
    /\ HttpIdle
    /\ ConcIdle
    /\ ClientIdle

CallAnalyzeChanges ==
    /\ pc = "call"
    /\ analysis' = analyzeChanges(original, corrected)
    /\ pc' = "done"
    /\ UNCHANGED <<original, corrected, word1, word2, spelling>>
    /\ UNCHANGED httpVars
    /\ UNCHANGED recordVars
    /\ UNCHANGED concVars
    /\ UNCHANGED clientVars

Next == CallAnalyzeChanges

Spec == Init /\ [][Next]_vars

\* a call of isSpellingError on two bounded words
SpellInit ==
    /\ word1 \in Words /\ word2 \in Words
    /\ spelling = FALSE
    /\ original = <<>> /\ corrected = <<>> /\ analysis = <<>>
    /\ pc = "call"
    /\ HttpIdle
    /\ ConcIdle
    /\ ClientIdle

CallIsSpellingError ==
    /\ pc = "call"
    /\ spelling' = isSpellingError(word1, word2)
    /\ pc' = "done"
    /\ UNCHANGED <<original, corrected, analysis, word1, word2>>
    /\ UNCHANGED httpVars
    /\ UNCHANGED recordVars
    /\ UNCHANGED concVars
    /\ UNCHANGED clientVars

SpellNext == CallIsSpellingError

SpellSpec == SpellInit /\ [][SpellNext]_vars

(***************************************************************************)
(* analyzeChanges on a text and the same text with one word inserted.      *)
(***************************************************************************)
MaxTokens == 3

\* the words of the texts
InsertWords == {<<"a">>, <<"i">>, <<"i", "a">>}

\* the words w[1..n] joined by single spaces
RECURSIVE Join(_)
Join(words) ==
    IF Len(words) = 0 THEN <<>>
    ELSE IF Len(words) = 1 THEN words[1]
    ELSE words[1] \o <<" ">> \o Join(Tail(words))

\* words with w inserted at zero-based index k
InsertAt(words, k, w) ==
    SubSeq(words, 1, k) \o <<w>> \o SubSeq(words, k + 1, Len(words))

\* a text of 1..MaxTokens words and the text with one more word at any index
InsertInit ==
    /\ \E words \in SeqsUpTo(InsertWords, MaxTokens) :
         /\ Len(words) >= 1
         /\ original = Join(words)
         /\ \E k \in 0..Len(words), w \in InsertWords :
              corrected = Join(InsertAt(words, k, w))
    /\ analysis = <<>>
    /\ word1 = <<>> /\ word2 = <<>> /\ spelling = FALSE
    /\ pc = "call"
    /\ HttpIdle
    /\ ConcIdle
    /\ ClientIdle

InsertSpec == InsertInit /\ [][Next]_vars

(***************************************************************************)
(* POST /api/proofread: one request through the handler of a variant.      *)
(***************************************************************************)
Variants == {"worker", "pages", "express"}

\* a text of n characters without whitespace
Fill(n) == [k \in 1..n |-> "a"]

\* the string texts of the requests: empty, short, the README example, and
\* texts around the character cap
HttpTexts ==
    {<<>>, <<"a">>, <<" ", "i">>, README_Input,
     Fill(MaxTextLength - 1), Fill(MaxTextLength), Fill(MaxTextLength + 1)}

\* the values of the text field of a body
TextValues ==
    {Undefined, Null, Number(0), Number(7), Boolean(TRUE), Boolean(FALSE), Array}
        \cup {String(t) : t \in HttpTexts}

\* the request bodies: not JSON, the JSON value null, a JSON number or
\* string, and an object with or without a text field
Bodies ==
    {[kind |-> "malformed"], [kind |-> "null"], [kind |-> "primitive"]}
        \cup {[kind |-> "object", text |-> v] : v \in TextValues}

\* the error messages a chat-completion endpoint sends (none: <<>>)
UpstreamMessages ==
    {<<>>, <<"Rate limit exceeded">>, <<"Incorrect API key provided">>,
     KeyNotConfigured}

\* the bodies of a response that is not ok
ErrorBodies ==
    {[kind |-> "malformed"]}
        \cup {[kind |-> "json", errorMessage |-> m] : m \in UpstreamMessages}

\* the bodies of an ok response: not JSON, or JSON with this value at
\* choices[0].message.content (Undefined: no choices, message or content)
OkBodies ==
    {[kind |-> "malformed"]}
        \cup {[kind |-> "json", content |-> c] :
                c \in {Undefined, Number(7), String(<<>>), String(<<" ">>),
                       String(<<" ", "I", " ", "a", "\n">>),
                       String(README_Output)}}

\* what the chat-completion endpoint does with a request: the fetch fails,
\* or it answers with a status that is ok or not
UpstreamOutcomes ==
    {[kind |-> "network", message |-> <<"fetch failed">>]}
        \cup {[kind |-> "response", ok |-> FALSE, statusText |-> st, body |-> b] :
                st \in {"401", "429", "500"}, b \in ErrorBodies}
        \cup {[kind |-> "response", ok |-> TRUE, statusText |-> "200", body |-> b] :
                b \in OkBodies}

\* the try block of proofreadText after the fetch settled with outcome o:
\* the corrected text, or the message of the error thrown inside it
tryProofread(t, o) ==
    IF o.kind = "network" THEN [threw |-> TRUE, message |-> o.message]
    ELSE IF ~o.ok
    THEN [threw |-> TRUE,
          message |-> apiErrorMessage(o.statusText,
                          IF o.body.kind = "json" THEN o.body.errorMessage
                          ELSE <<>>)]
    ELSE IF o.body.kind = "malformed"
    THEN [threw |-> TRUE, message |-> <<"Unexpected token in JSON">>]
    ELSE IF o.body.content.type = "undefined"
    THEN [threw |-> FALSE, correctedText |-> t]
    ELSE IF o.body.content.type # "string"
    THEN [threw |-> TRUE, message |-> <<"trim is not a function">>]
    ELSE IF trim(o.body.content.value) = <<>>
    THEN [threw |-> FALSE, correctedText |-> t]
    ELSE [threw |-> FALSE, correctedText |-> trim(o.body.content.value)]

\* proofreadText of the Worker after the fetch settled: the catch block
\* rethrows every error of the try block with a wrapped message
proofreadOutcome(t, o) ==
    LET r == tryProofread(t, o)
    IN IF r.threw THEN [threw |-> TRUE, message |-> wrappedMessage(r.message)]
       ELSE r

\* a request arrives
HttpInit ==
    /\ variant \in Variants
    /\ body \in Bodies
    /\ variant = "express" => body.kind # "malformed"
    /\ apiKey \in BOOLEAN
    /\ variant # "worker" => apiKey = FALSE
    /\ hpc = "received"
    /\ text = Undefined
    /\ proofreadCalls = 0 /\ outbound = 0 /\ records = <<>>
    /\ upstream = [kind |-> "none"]
    /\ response = [status |-> 0]
    /\ recordsDir \in BOOLEAN
    /\ variant # "express" => recordsDir = FALSE
    /\ ensurePc = IF variant = "express" THEN "access" ELSE "done"
    /\ writeError = "none"
    /\ got = [status |-> 0]
    /\ original = <<>> /\ corrected = <<>> /\ analysis = <<>>
    /\ word1 = <<>> /\ word2 = <<>> /\ spelling = FALSE
    /\ pc = "call"
    /\ ConcIdle
    /\ ClientIdle

\* the handler up to the call of proofreadText: the body is parsed and the
\* text validated
HandleRequest ==
    /\ hpc = "received"
    /\ LET parsed == parseBody(body)
       IN IF parsed.threw
          THEN /\ response' = catchResponse(variant, parsed.message)
               /\ hpc' = "responded"
               /\ UNCHANGED text
          ELSE /\ text' = parsed.text
               /\ response' = validationResponse(parsed.text)
               /\ hpc' = IF validationResponse(parsed.text).status = 0
                         THEN "proofreading" ELSE "responded"
    /\ UNCHANGED <<variant, body, apiKey, proofreadCalls, outbound, upstream, records>>
    /\ UNCHANGED concVars
    /\ UNCHANGED clientVars
    /\ UNCHANGED recordVars
    /\ UNCHANGED analyzerVars

\* proofreadingService.analyzeChanges of the variant
analyzeChangesOf(v, orig, corr) ==
    CASE v = "worker" -> analyzeChanges(orig, corr)
      [] v = "pages" -> api_analyzeChanges(orig, corr)
      [] v = "express" -> express_analyzeChanges(orig, corr)

\* a slip: the response carries the trimmed text and the analysis of the
\* trimmed text
Analyze_trimmedOriginal(correctedText) ==
    /\ original' = trim(text.value)
    /\ corrected' = correctedText
    /\ analysis' = analyzeChangesOf(variant, trim(text.value), correctedText)
    /\ pc' = "done"
    /\ IF variant = "express"
       THEN hpc' = "saving" /\ UNCHANGED response
       ELSE /\ hpc' = "responded"
            /\ response' = [status |-> 200, original |-> trim(text.value),
                            corrected |-> correctedText,
                            analysis |-> analyzeChangesOf(variant,
                                             trim(text.value), correctedText)]

\* the handler from the corrected text on: the analysis and the 200 response
\* (the Express route saves a record first)
Analyze(correctedText) ==
    /\ original' = text.value
    /\ corrected' = correctedText
    /\ analysis' = analyzeChangesOf(variant, text.value, correctedText)
    /\ pc' = "done"
    /\ IF variant = "express"
       THEN hpc' = "saving" /\ UNCHANGED response
       ELSE /\ hpc' = "responded"
            /\ response' = [status |-> 200, original |-> text.value,
                            corrected |-> correctedText,
                            analysis |-> analyzeChangesOf(variant, text.value,
                                                          correctedText)]

\* proofreadText of the Worker up to the fetch: without a credential it
\* throws before its try block, otherwise it sends the request
ProofreadText ==
    /\ hpc = "proofreading"
    /\ variant = "worker"
    /\ proofreadCalls' = proofreadCalls + 1
    /\ IF ~apiKey
       THEN /\ response' = catchResponse(variant, KeyNotConfigured)
            /\ hpc' = "responded"
            /\ UNCHANGED outbound
       ELSE /\ outbound' = outbound + 1
            /\ hpc' = "fetching"
            /\ UNCHANGED response
    /\ UNCHANGED <<variant, body, apiKey, text, upstream, records>>
    /\ UNCHANGED concVars
    /\ UNCHANGED clientVars
    /\ UNCHANGED recordVars
    /\ UNCHANGED analyzerVars

\* the fetch of the Worker settles; proofreadText returns or throws and the
\* handler answers
FetchSettles ==
    /\ hpc = "fetching"
    /\ \E o \in UpstreamOutcomes :
         LET r == proofreadOutcome(text.value, o)
         IN /\ upstream' = o
            /\ IF r.threw
               THEN /\ response' = catchResponse(variant, r.message)
                    /\ hpc' = "responded"
                    /\ UNCHANGED <<original, corrected, analysis, pc>>
               ELSE Analyze(r.correctedText)
    /\ UNCHANGED <<variant, body, apiKey, text, proofreadCalls, outbound, records>>
    /\ UNCHANGED concVars
    /\ UNCHANGED clientVars
    /\ UNCHANGED recordVars
    /\ UNCHANGED <<word1, word2, spelling>>

\* proofreadText of the Pages function and of the Express service: the mock
\* correction
MockProofreadText ==
    /\ hpc = "proofreading"
    /\ variant \in {"pages", "express"}
    /\ proofreadCalls' = proofreadCalls + 1
    /\ Analyze(mockProofread(text.value))
    /\ UNCHANGED <<variant, body, apiKey, text, outbound, upstream, records>>
    /\ UNCHANGED concVars
    /\ UNCHANGED clientVars
    /\ UNCHANGED recordVars
    /\ UNCHANGED <<word1, word2, spelling>>

\* JSON.stringify(recordWithId, null, 2): the content of the record file.
\* Every property of the record and of its annotations is a string or a
\* number, so no property is dropped
stringify(record) ==
    [id |-> record.id,
     originalText |-> record.originalText,
     correctedText |-> record.correctedText,
     analysis |-> [k \in 1..Len(record.analysis) |->
                     [type |-> record.analysis[k].type,
                      original |-> record.analysis[k].original,
                      corrected |-> record.analysis[k].corrected,
                      suggestion |-> record.analysis[k].suggestion,
                      position |-> record.analysis[k].position]],
     timestamp |-> record.timestamp]

\* a slip: the file is named after another id than the one returned
saveRecord_otherFile(files, recordId, record) ==
    Append(files, [name |-> recordId + 1,
                   content |-> stringify([id |-> recordId] @@ record)])

\* RecordService.saveRecord after a successful write: the files of the
\* records directory
saveRecord(files, recordId, record) ==
    Append(files, [name |-> recordId,
                   content |-> stringify([id |-> recordId] @@ record)])

\* RecordService.getRecord(id): the parsed content of the file named after
\* id, or null when reading it fails
getRecord(files, id) ==
    IF \E k \in 1..Len(files) : files[k].name = id
    THEN LET k == CHOOSE j \in 1..Len(files) :
                      /\ files[j].name = id
                      /\ \A i \in (j + 1)..Len(files) : files[i].name # id
         IN [type |-> "object", value |-> files[k].content]
    ELSE Null

\* GET /api/records/:id
getRecordRoute(files, id) ==
    IF getRecord(files, id) = Null
    THEN [status |-> 404, id |-> id, error |-> "Record not found"]
    ELSE [status |-> 200, id |-> id, record |-> getRecord(files, id).value]

\* the ids GET /api/records/:id is called with
RecordIds == 1..2

\* the constructor's un-awaited ensureRecordsDirectory: fs.access has
\* settled
EnsureAccess ==
    /\ ensurePc = "access"
    /\ ensurePc' = IF recordsDir THEN "done" ELSE "mkdir"
    /\ UNCHANGED <<recordsDir, writeError, got>>
    /\ UNCHANGED httpVars
    /\ UNCHANGED concVars
    /\ UNCHANGED clientVars
    /\ UNCHANGED analyzerVars

\* ensureRecordsDirectory: fs.mkdir has settled
EnsureMkdir ==
    /\ ensurePc = "mkdir"
    /\ recordsDir' = TRUE
    /\ ensurePc' = "done"
    /\ UNCHANGED <<writeError, got>>
    /\ UNCHANGED httpVars
    /\ UNCHANGED concVars
    /\ UNCHANGED clientVars
    /\ UNCHANGED analyzerVars

\* recordService.saveRecord of the Express route: fs.writeFile rejects with
\* ENOENT when the records directory does not exist and may fail otherwise;
\* after a write the route answers with the record id, after a failure the
\* catch block answers
SaveRecord ==
    /\ hpc = "saving"
    /\ \E err \in {"none", "ENOENT", "EIO"} :
         /\ err = "none" => recordsDir
         /\ err = "ENOENT" <=> ~recordsDir
         /\ writeError' = err
         /\ IF err = "none"
            THEN /\ records' = saveRecord(records, Len(records) + 1,
                                   [originalText |-> text.value,
                                    correctedText |-> corrected,
                                    analysis |-> analysis,
                                    timestamp |-> "now"])
                 /\ response' = [status |-> 200, original |-> text.value,
                                 corrected |-> corrected, analysis |-> analysis,
                                 recordId |-> Len(records) + 1]
            ELSE /\ response' = plainCatch(<<err>>)
                 /\ UNCHANGED records
    /\ hpc' = "responded"
    /\ UNCHANGED <<variant, body, apiKey, text, proofreadCalls, outbound, upstream>>
    /\ UNCHANGED <<recordsDir, ensurePc, got>>
    /\ UNCHANGED concVars
    /\ UNCHANGED clientVars
    /\ UNCHANGED analyzerVars

\* GET /api/records/:id after the proofread request has been answered
GetRecord ==
    /\ hpc = "responded"
    /\ variant = "express"
    /\ got.status = 0
    /\ \E id \in RecordIds : got' = getRecordRoute(records, id)
    /\ UNCHANGED <<recordsDir, ensurePc, writeError>>
    /\ UNCHANGED httpVars
    /\ UNCHANGED concVars
    /\ UNCHANGED clientVars
    /\ UNCHANGED analyzerVars

HttpNext ==
    \/ HandleRequest
    \/ ProofreadText
    \/ FetchSettles
    \/ MockProofreadText
    \/ SaveRecord
    \/ EnsureAccess
    \/ EnsureMkdir
    \/ GetRecord

HttpSpec == HttpInit /\ [][HttpNext]_vars

(***************************************************************************)
(* functions/api.js: requests handled concurrently by onRequest share the  *)
(* module-level proofreadingService.  A handler gives up control at its    *)
(* awaits; the synchronous analyzeChanges call runs to completion.         *)
(***************************************************************************)
MaxRequests == 2

Requests == 1..MaxRequests

\* the texts of the concurrent requests
ConcTexts ==
    {README_Input, <<"m", "i", "s", "t", "a", "k">>,
     <<"w", "o", "l", "d", " ", "a">>, <<"a">>}

\* a slip: the list is kept in a field of the instance and never reset
analyzeCall_sharedAccumulator(svc, o, c) ==
    LET kept == IF svc = <<>> THEN <<>> ELSE svc[1]
    IN [service |-> <<kept \o api_analyzeChanges(o, c)>>,
        result |-> kept \o api_analyzeChanges(o, c)]

\* proofreadingService.analyzeChanges(o, c) on the instance with own
\* properties svc: the list returned and the instance after the call.  The
\* method reads its two parameters and writes its locals only.
analyzeCall(svc, o, c) ==
    [service |-> svc, result |-> api_analyzeChanges(o, c)]

ConcInit ==
    /\ service = NewService
    /\ reqs \in [Requests -> {[pc |-> "received", text |-> t, corrected |-> <<>>,
                               analysis |-> <<>>] : t \in ConcTexts}]
    /\ original = <<>> /\ corrected = <<>> /\ analysis = <<>>
    /\ word1 = <<>> /\ word2 = <<>> /\ spelling = FALSE
    /\ pc = "call"
    /\ HttpIdle
    /\ ClientIdle

\* await request.json() has resolved: the text is validated and
\* proofreadText is called
ConcReceive(r) ==
    /\ reqs[r].pc = "received"
    /\ validationResponse(String(reqs[r].text)).status = 0
    /\ reqs' = [reqs EXCEPT ![r].pc = "proofreading"]
    /\ UNCHANGED service
    /\ UNCHANGED analyzerVars
    /\ UNCHANGED httpVars
    /\ UNCHANGED recordVars
    /\ UNCHANGED clientVars

\* await proofreadingService.proofreadText(text) has resolved
ConcProofread(r) ==
    /\ reqs[r].pc = "proofreading"
    /\ reqs' = [reqs EXCEPT ![r].pc = "analyzing",
                            ![r].corrected = mockProofread(reqs[r].text)]
    /\ UNCHANGED service
    /\ UNCHANGED analyzerVars
    /\ UNCHANGED httpVars
    /\ UNCHANGED recordVars
    /\ UNCHANGED clientVars

\* proofreadingService.analyzeChanges(text, correctedText) and the response
ConcAnalyze(r) ==
    /\ reqs[r].pc = "analyzing"
    /\ LET call == analyzeCall(service, reqs[r].text, reqs[r].corrected)
       IN /\ service' = call.service
          /\ reqs' = [reqs EXCEPT ![r].pc = "responded",
                                  ![r].analysis = call.result]
    /\ UNCHANGED analyzerVars
    /\ UNCHANGED httpVars
    /\ UNCHANGED recordVars
    /\ UNCHANGED clientVars

ConcNext ==
    \E r \in Requests :
        \/ ConcReceive(r)
        \/ ConcProofread(r)
        \/ ConcAnalyze(r)

ConcSpec == ConcInit /\ [][ConcNext]_vars

(***************************************************************************)
(* public/script.js: the page.  The proofread button and Ctrl/Cmd+Enter in *)
(* the text area both call PolishPal.proofreadText.                        *)
(***************************************************************************)
MaxCalls == 3

\* the contents of the text area when proofreadText is called
PageTexts == {<<>>, <<" ">>, <<" ", "a">>, Fill(MaxTextLength + 1)}

\* the calls whose request has not settled yet
InFlight == {c \in 1..Len(calls) : calls[c].pc # "settled"}

\* PolishPal.proofreadText up to the fetch: the two checks of the trimmed
\* text, then setLoading(true) and the request
Submit(value) ==
    IF trim(value) = <<>>
    THEN /\ errorShown' = <<"Please enter some text to proofread.">>
         /\ UNCHANGED <<disabled, calls>>
    ELSE IF tooLong(String(trim(value)))
    THEN /\ errorShown' = <<"Text must be less than 5000 characters.">>
         /\ UNCHANGED <<disabled, calls>>
    ELSE /\ Len(calls) < MaxCalls
         /\ disabled' = TRUE
         /\ calls' = Append(calls, [pc |-> "fetching", ok |-> FALSE])
         /\ UNCHANGED errorShown

\* a click on the proofread button; a disabled button fires no click event
Click ==
    /\ ~disabled
    /\ \E value \in PageTexts : Submit(value)
    /\ UNCHANGED <<analyzerVars, httpVars, recordVars, concVars>>

\* the keydown listener of the text area: Ctrl/Cmd+Enter
CtrlEnter ==
    /\ \E value \in PageTexts : Submit(value)
    /\ UNCHANGED <<analyzerVars, httpVars, recordVars, concVars>>

\* the fetch of call c settles: it rejects (catch, then finally
\* setLoading(false)), or a response arrives and its body is awaited
ResponseArrives(c) ==
    /\ c \in 1..Len(calls)
    /\ calls[c].pc = "fetching"
    /\ \/ /\ calls' = [calls EXCEPT ![c].pc = "settled"]
          /\ errorShown' = <<"Failed to fetch">>
          /\ disabled' = FALSE
       \/ /\ \E ok \in BOOLEAN :
               calls' = [calls EXCEPT ![c].pc = "reading", ![c].ok = ok]
          /\ UNCHANGED <<disabled, errorShown>>
    /\ UNCHANGED <<analyzerVars, httpVars, recordVars, concVars>>

\* response.json() of call c settles: the results are displayed, or the
\* error of the server is thrown and shown; finally setLoading(false)
BodyRead(c) ==
    /\ c \in 1..Len(calls)
    /\ calls[c].pc = "reading"
    /\ calls' = [calls EXCEPT ![c].pc = "settled"]
    /\ errorShown' = IF calls[c].ok THEN errorShown
                     ELSE <<"Failed to proofread text">>
    /\ disabled' = FALSE
    /\ UNCHANGED <<analyzerVars, httpVars, recordVars, concVars>>

ClientInit ==
    /\ disabled = FALSE /\ calls = <<>> /\ errorShown = <<>>
    /\ original = <<>> /\ corrected = <<>> /\ analysis = <<>>
    /\ word1 = <<>> /\ word2 = <<>> /\ spelling = FALSE
    /\ pc = "call"
    /\ HttpIdle
    /\ ConcIdle

ClientNext ==
    \/ Click
    \/ CtrlEnter
    \/ \E c \in 1..MaxCalls : ResponseArrives(c)
    \/ \E c \in 1..MaxCalls : BodyRead(c)

ClientSpec == ClientInit /\ [][ClientNext]_vars

(***************************************************************************)
(* Vocabulary of the properties.                                           *)
(***************************************************************************)
\* the arrays the for loop of analyzeChanges runs over
originalWordsOf == split(toLowerCase(original))
correctedWordsOf == split(toLowerCase(corrected))
maxLengthOf == Max(Len(originalWordsOf), Len(correctedWordsOf))

\* the element of a token array at zero-based i, the empty string if none
TokenAt(tokens, i) == IF i < Len(tokens) THEN tokens[i + 1] ELSE <<>>

\* the indices of analysis whose annotation is at position i
AnnotationsAt(i) == {k \in 1..Len(analysis) : analysis[k].position = i}

\* the number of indices below the shorter length at which a and b agree
CommonChars(a, b) ==
    Cardinality({k \in 1..Min(Len(a), Len(b)) : a[k] = b[k]})

\* the decision order of the classification, as a list of rules: the first
\* rule whose condition holds gives the type and the suggestion
Rules(o, c) ==
    << [when |-> o = <<>> /\ c # <<>>, type |-> "missing_word",
        suggestion |-> AddPrefix \o c \o Quote],
       [when |-> o # <<>> /\ c = <<>>, type |-> "extra_word",
        suggestion |-> RemovePrefix \o o \o Quote],
       [when |-> isSpellingError(o, c), type |-> "spelling",
        suggestion |-> Quote \o o \o ArrowInfix \o c \o Quote],
       [when |-> o = <<"i">> /\ c = <<"i">>, type |-> "capitalization",
        suggestion |-> CapitalizeI],
       [when |-> TRUE, type |-> "grammar",
        suggestion |-> Quote \o o \o ArrowInfix \o c \o Quote] >>

FirstRule(o, c) ==
    LET r == Rules(o, c)
    IN r[CHOOSE k \in 1..Len(r) : r[k].when /\ \A j \in 1..(k - 1) : ~r[j].when]

C2_DecisionOrder ==
    pc = "done" =>
        \A k \in 1..Len(analysis) :
            LET o == TokenAt(originalWordsOf, analysis[k].position)
                c == TokenAt(correctedWordsOf, analysis[k].position)
            IN /\ analysis[k].original = o
               /\ analysis[k].corrected = c
               /\ analysis[k].type = FirstRule(o, c).type
               /\ analysis[k].suggestion = FirstRule(o, c).suggestion

\* a call that reported a spelling change and a grammar change
C2_Witness ==
    /\ pc = "done"
    /\ \E k \in 1..Len(analysis) : analysis[k].type = "spelling"
    /\ \E k \in 1..Len(analysis) : analysis[k].type = "grammar"

(***************************************************************************)
(* C3: isSpellingError(word1, word2) is false if either word is empty,     *)
(* false if the lengths differ by more than 2, and otherwise true exactly  *)
(* when 5 * commonChars > 3 * minLength, commonChars being the number of   *)
(* indices below minLength at which the two words carry the same character.*)
(***************************************************************************)
C3_IsSpellingError ==
    pc = "done" =>
        spelling =
            IF Len(word1) = 0 \/ Len(word2) = 0 THEN FALSE
            ELSE IF Len(word1) - Len(word2) > 2 \/ Len(word2) - Len(word1) > 2
                 THEN FALSE
                 ELSE 5 * CommonChars(word1, word2)
                          > 3 * Min(Len(word1), Len(word2))

\* a call at the boundary of the ratio: 3 of 5 characters agree
C3_Witness ==
    /\ pc = "done"
    /\ Len(word1) = 5 /\ Len(word2) = 5
    /\ CommonChars(word1, word2) = 3
    /\ spelling = FALSE

(***************************************************************************)
(* C4: analyzeChanges(s, s) returns the empty list for every string s,     *)
(* the empty string, whitespace-only strings and strings with leading or   *)
(* trailing whitespace included.                                           *)
(***************************************************************************)
C4_SameTextNoAnnotation ==
    (pc = "done" /\ original = corrected) => analysis = <<>>

\* a call on twice the same text that starts with whitespace and has an
\* upper-case letter
C4_Witness ==
    /\ pc = "done"
    /\ original = corrected
    /\ Len(original) >= 2
    /\ IsWhitespace(original[1])
    /\ \E k \in 1..Len(original) : toLowerChar(original[k]) # original[k]

\* the indices at which a token (a maximal run of non-whitespace characters)
\* of s starts
TokenStarts(s) ==
    {k \in 1..Len(s) : ~IsWhitespace(s[k]) /\ (k = 1 \/ IsWhitespace(s[k - 1]))}

\* the index of the last character of the token that starts at k
TokenEnd(s, k) ==
    CHOOSE e \in k..Len(s) :
        /\ \A j \in k..e : ~IsWhitespace(s[j])
        /\ (e = Len(s) \/ IsWhitespace(s[e + 1]))

\* the number of tokens of s
tokenCount(s) == Cardinality(TokenStarts(s))

\* the tokens of s, in order: its maximal runs of non-whitespace characters
Tokens(s) ==
    [n \in 1..tokenCount(s) |->
        LET k == CHOOSE x \in TokenStarts(s) :
                     Cardinality({y \in TokenStarts(s) : y < x}) = n - 1
        IN SubSeq(s, k, TokenEnd(s, k))]

\* s has neither leading nor trailing whitespace
Trimmed(s) == Len(s) = 0 \/ (~IsWhitespace(s[1]) /\ ~IsWhitespace(s[Len(s)]))

\* long is short followed by at least one further token
ExtendsBy(short, long) ==
    Len(long) > Len(short) /\ SubSeq(long, 1, Len(short)) = short

originalTokens == Tokens(toLowerCase(original))
correctedTokens == Tokens(toLowerCase(corrected))

(***************************************************************************)
(* C5: the number of annotations analyzeChanges returns is at most the     *)
(* larger of tokenCount(original) and tokenCount(corrected), tokenCount    *)
(* counting the maximal runs of non-whitespace characters.                 *)
(***************************************************************************)
C5_CountAtMostTokenCount ==
    pc = "done" =>
        Len(analysis) <= Max(tokenCount(original), tokenCount(corrected))

(***************************************************************************)
(* C6: the list analyzeChanges returns is strictly ascending in position:  *)
(* every position is an integer in 0 .. max(len(originalWords),            *)
(* len(correctedWords)) - 1 and is greater than the position before it.    *)
(***************************************************************************)
C6_StrictlyAscending ==
    pc = "done" =>
        /\ \A k \in 1..Len(analysis) : analysis[k].position \in 0..(maxLengthOf - 1)
        /\ \A k \in 2..Len(analysis) :
             analysis[k].position > analysis[k - 1].position

\* a call that returned annotations with an unannotated position in between
C6_Witness ==
    /\ pc = "done"
    /\ \E k \in 2..Len(analysis) :
         analysis[k].position > analysis[k - 1].position + 1

(***************************************************************************)
(* C7: when neither text has leading or trailing whitespace and one token  *)
(* sequence is the other followed by k >= 1 further tokens, analyzeChanges *)
(* returns exactly k annotations, at the positions len(shorter) ..         *)
(* len(shorter) + k - 1: all missing_word with suggestion Add "<token>"    *)
(* when the corrected text is the longer, all extra_word with suggestion   *)
(* Remove "<token>" when the original text is the longer.                  *)
(***************************************************************************)
C7_TrailingTokens ==
    (pc = "done" /\ Trimmed(original) /\ Trimmed(corrected)) =>
        /\ ExtendsBy(originalTokens, correctedTokens) =>
             /\ Len(analysis) = Len(correctedTokens) - Len(originalTokens)
             /\ \A j \in 1..Len(analysis) :
                  /\ analysis[j].position = Len(originalTokens) + j - 1
                  /\ analysis[j].type = "missing_word"
                  /\ analysis[j].suggestion =
                       AddPrefix \o correctedTokens[Len(originalTokens) + j] \o Quote
        /\ ExtendsBy(correctedTokens, originalTokens) =>
             /\ Len(analysis) = Len(originalTokens) - Len(correctedTokens)
             /\ \A j \in 1..Len(analysis) :
                  /\ analysis[j].position = Len(correctedTokens) + j - 1
                  /\ analysis[j].type = "extra_word"
                  /\ analysis[j].suggestion =
                       RemovePrefix \o originalTokens[Len(correctedTokens) + j] \o Quote

\* a call whose corrected text is the original text and one more word
C7_Witness ==
    /\ pc = "done"
    /\ Trimmed(original) /\ Trimmed(corrected)
    /\ Len(originalTokens) >= 1
    /\ ExtendsBy(originalTokens, correctedTokens)
    /\ Len(analysis) = 1

(***************************************************************************)
(* C8: analyzeChanges on the README example contains an annotation for     *)
(* wold -> would of type spelling and an annotation for mistak -> mistake  *)
(* of type spelling.                                                       *)
(***************************************************************************)
C8_ReadmeSpelling ==
    (pc = "done" /\ original = README_Input /\ corrected = README_Output) =>
        /\ \E k \in 1..Len(analysis) :
             /\ analysis[k].original = <<"w","o","l","d">>
             /\ analysis[k].corrected = <<"w","o","u","l","d">>
             /\ analysis[k].type = "spelling"
        /\ \E k \in 1..Len(analysis) :
             /\ analysis[k].original = <<"m","i","s","t","a","k">>
             /\ analysis[k].corrected = <<"m","i","s","t","a","k","e">>
             /\ analysis[k].type = "spelling"

(***************************************************************************)
(* C9: tokenization discards empty tokens, so leading or trailing          *)
(* whitespace in either text neither adds a position nor shifts the        *)
(* positions of the words: the annotations are those of the position by    *)
(* position comparison of the two sequences of non-empty tokens.           *)
(***************************************************************************)
C9_EmptyTokensDiscarded ==
    pc = "done" =>
        LET n == Max(Len(originalTokens), Len(correctedTokens))
        IN /\ \A k \in 1..Len(analysis) :
                /\ analysis[k].position < n
                /\ analysis[k].original = TokenAt(originalTokens, analysis[k].position)
                /\ analysis[k].corrected = TokenAt(correctedTokens, analysis[k].position)
           /\ \A i \in 0..(n - 1) :
                (TokenAt(originalTokens, i) # TokenAt(correctedTokens, i))
                    <=> AnnotationsAt(i) # {}

(***************************************************************************)
(* C10: the original field of an annotation is empty only at a position    *)
(* past the end of the original token sequence, and the corrected field is *)
(* empty only at a position past the end of the corrected token sequence;  *)
(* so no missing_word is below the number of original words and no         *)
(* extra_word below the number of corrected words.                         *)
(***************************************************************************)
C10_EmptyFieldOnlyPastEnd ==
    pc = "done" =>
        \A k \in 1..Len(analysis) :
            /\ analysis[k].original = <<>> =>
                   analysis[k].position >= Len(originalTokens)
            /\ analysis[k].corrected = <<>> =>
                   analysis[k].position >= Len(correctedTokens)
            /\ analysis[k].type = "missing_word" =>
                   analysis[k].position >= Len(originalTokens)
            /\ analysis[k].type = "extra_word" =>
                   analysis[k].position >= Len(correctedTokens)

\* the types an annotation can carry according to the data model
AnnotationTypes ==
    {"missing_word", "extra_word", "spelling", "capitalization", "grammar",
     "unknown"}

\* x is a JavaScript array: a finite sequence
IsList(x) == DOMAIN x = 1..Len(x)

\* the other-case form of a character
otherCaseChar(c) ==
    IF \E k \in 1..26 : UpperCase[k] = c
    THEN LowerCase[CHOOSE k \in 1..26 : UpperCase[k] = c]
    ELSE IF \E k \in 1..26 : LowerCase[k] = c
         THEN UpperCase[CHOOSE k \in 1..26 : LowerCase[k] = c]
         ELSE c

\* s with every letter replaced by its other-case form
swapCase(s) == [k \in 1..Len(s) |-> otherCaseChar(s[k])]

\* s with the letter at index k replaced by its other-case form
swapCaseAt(s, k) == [s EXCEPT ![k] = otherCaseChar(s[k])]

C12_Total ==
    /\ pc = "call" => IsList(analyzeChanges(original, corrected))
    /\ pc = "done" =>
         /\ IsList(analysis)
         /\ \A k \in 1..Len(analysis) :
              /\ DOMAIN analysis[k] =
                     {"position", "original", "corrected", "type", "suggestion"}
              /\ analysis[k].position \in Nat
              /\ analysis[k].type \in AnnotationTypes
              /\ IsList(analysis[k].original)
              /\ IsList(analysis[k].corrected)
              /\ IsList(analysis[k].suggestion)
         /\ \A i \in 0..(maxLengthOf - 1) :
              LET o == TokenAt(originalWordsOf, i)
                  c == TokenAt(correctedWordsOf, i)
              IN /\ isSpellingError(o, c) \in BOOLEAN
                 /\ reachesRatio(o, c) => Min(Len(o), Len(c)) > 0

\* a call on a whitespace-only original text that returned an annotation
C12_Witness ==
    /\ pc = "done"
    /\ Len(original) >= 1
    /\ \A k \in 1..Len(original) : IsWhitespace(original[k])
    /\ Len(analysis) >= 1

C15_CopiesAgree ==
    pc = "done" =>
        /\ api_analyzeChanges(original, corrected) = analysis
        /\ ts_analyzeChanges(original, corrected) = analysis
        /\ express_analyzeChanges(original, corrected) = analysis
        /\ \A i \in 1..Len(originalWordsOf), j \in 1..Len(correctedWordsOf) :
             LET o == originalWordsOf[i]
                 c == correctedWordsOf[j]
             IN /\ api_isSpellingError(o, c) = isSpellingError(o, c)
                /\ ts_isSpellingError(o, c) = isSpellingError(o, c)
                /\ express_isSpellingError(o, c) = isSpellingError(o, c)

\* a call that reported a spelling change and a one-sided change
C15_Witness ==
    /\ pc = "done"
    /\ \E k \in 1..Len(analysis) : analysis[k].type = "spelling"
    /\ \E k \in 1..Len(analysis) : analysis[k].type \in {"missing_word", "extra_word"}

(***************************************************************************)
(* C16: for the README request text and its correction, the analysis       *)
(* contains an item with position 0, original "i", corrected "I", type     *)
(* capitalization and suggestion Capitalize "I".                           *)
(***************************************************************************)
C16_ReadmeCapitalization ==
    (pc = "done" /\ original = README_Input /\ corrected = README_Output) =>
        \E k \in 1..Len(analysis) :
            /\ analysis[k].position = 0
            /\ analysis[k].original = <<"i">>
            /\ analysis[k].corrected = <<"I">>
            /\ analysis[k].type = "capitalization"
            /\ analysis[k].suggestion = CapitalizeI

(***************************************************************************)
(* C17: for the README example the change no -> not at position 2 is       *)
(* reported with type grammar.                                             *)
(***************************************************************************)
C17_ReadmeGrammar ==
    (pc = "done" /\ original = README_Input /\ corrected = README_Output) =>
        \E k \in 1..Len(analysis) :
            /\ analysis[k].position = 2
            /\ analysis[k].original = <<"n", "o">>
            /\ analysis[k].corrected = <<"n", "o", "t">>
            /\ analysis[k].type = "grammar"

(***************************************************************************)
(* Vocabulary of the properties of POST /api/proofread.                    *)
(***************************************************************************)
\* the body is a JSON object, with or without a text field
ObjectBody == body.kind = "object"

\* the text field of the body is a non-empty string
StringText == ObjectBody /\ body.text.type = "string" /\ body.text.value # <<>>

\* the text field of the body is a non-empty string within the cap
ValidText == StringText /\ Len(body.text.value) <= 5000

\* the text field is missing, empty, not a string, or above the cap
InvalidText == ObjectBody /\ ~ValidText

Responded == hpc = "responded"

\* C18: a request whose text is missing, empty, not a string or longer than
\* 5000 characters never reaches the correction provider, sends no outbound
\* request and saves no record, and it is answered 400, with or without a
\* provider credential.
C18_InvalidTextIs400 ==
    InvalidText =>
        /\ proofreadCalls = 0 /\ outbound = 0 /\ records = <<>>
        /\ hpc \in {"received", "responded"}
        /\ Responded => response.status = 400

\* a Worker without a credential has answered a text that is not a string
C18_Witness ==
    /\ Responded /\ InvalidText /\ variant = "worker" /\ ~apiKey
    /\ body.text.type = "number"
    /\ response.status = 400

C20_503OnlyWithoutCredential ==
    (Responded /\ variant = "worker") =>
        /\ (ValidText /\ ~apiKey) =>
              /\ response.status = 503
              /\ response.error = "Service temporarily unavailable"
              /\ outbound = 0
        /\ response.status = 503 => (ValidText /\ ~apiKey /\ outbound = 0)

\* the chat-completion endpoint answered with a status that is not 2xx
UpstreamNon2xx == upstream.kind = "response" /\ ~upstream.ok

\* the chat-completion call failed, answered non-2xx, or answered 2xx with a
\* body that is not JSON or carries no or an empty message content
ProviderFailed ==
    \/ upstream.kind = "network"
    \/ UpstreamNon2xx
    \/ /\ upstream.kind = "response" /\ upstream.ok
       /\ \/ upstream.body.kind = "malformed"
          \/ upstream.body.content.type = "undefined"
          \/ /\ upstream.body.content.type = "string"
             /\ upstream.body.content.value = <<>>

\* C21: in the Worker, whenever the chat-completion endpoint answers a valid
\* request with a non-2xx status, whatever the status and the error message
\* of its body, the request is answered 502 'AI service error'.
C21_Non2xxIs502 ==
    (Responded /\ variant = "worker" /\ UpstreamNon2xx) =>
        /\ response.status = 502
        /\ response.error = "AI service error"

\* C22: whenever the chat-completion call fails, answers non-2xx or answers
\* with a malformed response, the request is answered with an error status
\* and never with a 200 response carrying a corrected text and an analysis.
C22_ProviderFailureNotSuccess ==
    (Responded /\ ProviderFailed) => response.status >= 400

\* C23: a request whose body is not parsable as JSON, or is JSON that is
\* not an object, is answered with a 4xx status and not with 500.
C23_MalformedBodyIs4xx ==
    (Responded /\ body.kind \in {"malformed", "null", "primitive"}) =>
        response.status \in 400..499

\* the corrected text proofreadText of the variant returns for the request
ProviderText ==
    IF variant = "worker"
    THEN proofreadOutcome(body.text.value, upstream).correctedText
    ELSE mockProofread(body.text.value)

\* C24: every 200 response carries as original the text of the request as
\* received, as corrected the text the correction provider returned, and as
\* analysis analyzeChanges of exactly these two strings.
C24_SuccessBody ==
    (Responded /\ response.status = 200) =>
        /\ response.original = body.text.value
        /\ response.corrected = ProviderText
        /\ response.analysis = analyzeChanges(body.text.value, ProviderText)

\* a text with leading whitespace and a lower-case word has been answered
\* with the text as received
C24_Witness ==
    /\ Responded /\ response.status = 200
    /\ body.text.value = <<" ", "i">>
    /\ response.original = <<" ", "i">>
    /\ response.corrected = <<"I">>
    /\ response.analysis # <<>>

\* the record carries the id and the three fields of the 200 response
RecordMatches(record, resp) ==
    /\ record.id = resp.recordId
    /\ record.originalText = resp.original
    /\ record.correctedText = resp.corrected
    /\ record.analysis = resp.analysis

\* C25: in the Express variant a 200 response of POST /api/proofread comes
\* after the record was saved: GET /api/records/:id with the recordId of the
\* response answers with a record that carries this id and the original,
\* corrected and analysis of the response; when saving fails the request is
\* answered 500 without a success body.
C25_RecordRoundTrip ==
    (variant = "express" /\ Responded) =>
        /\ response.status = 200 =>
              /\ getRecord(records, response.recordId) # Null
              /\ RecordMatches(getRecord(records, response.recordId).value, response)
              /\ (got.status # 0 /\ got.id = response.recordId) =>
                    (got.status = 200 /\ RecordMatches(got.record, response))
        /\ writeError # "none" =>
              (response.status = 500 /\ records = <<>>)

\* the record of an answered request with annotations has been fetched
C25_Witness ==
    /\ variant = "express" /\ Responded /\ response.status = 200
    /\ got.status = 200 /\ got.id = response.recordId
    /\ got.record.originalText = README_Input
    /\ got.record.analysis # <<>>

\* C29: in the Express variant saveRecord never writes into a records
\* directory that has not been created yet, whatever the interleaving of
\* the constructor's ensureRecordsDirectory with the first request, so no
\* valid request is answered 500 for a missing directory.
C29_DirectoryExistsAtWrite ==
    variant = "express" => writeError # "ENOENT"

\* the split arrays hold no empty piece: the text is not empty and has no
\* leading or trailing whitespace
NoEmptyPiece(words) == \A j \in 1..Len(words) : words[j] # <<>>

\* the corrected words are the original words with one word inserted at the
\* zero-based index k
InsertedAt(k) ==
    /\ NoEmptyPiece(originalWordsOf) /\ NoEmptyPiece(correctedWordsOf)
    /\ k \in 0..Len(originalWordsOf)
    /\ Len(correctedWordsOf) = Len(originalWordsOf) + 1
    /\ correctedWordsOf = InsertAt(originalWordsOf, k, correctedWordsOf[k + 1])

\* position i carries exactly one annotation
Annotated(i) == Cardinality(AnnotationsAt(i)) = 1

\* the last position carries missing_word with the last corrected word
LastIsMissingWord ==
    LET n == Len(originalWordsOf)
    IN /\ Annotated(n)
       /\ \A j \in AnnotationsAt(n) :
            /\ analysis[j].type = "missing_word"
            /\ analysis[j].original = <<>>
            /\ analysis[j].corrected = correctedWordsOf[n + 1]
            /\ analysis[j].suggestion = AddPrefix \o correctedWordsOf[n + 1] \o Quote

C27_Symmetric ==
    pc = "done" =>
        /\ spelling = isSpellingError(word2, word1)
        /\ api_isSpellingError(word1, word2) = api_isSpellingError(word2, word1)

\* a call on a short word and a word three characters longer
C27_Witness ==
    /\ pc = "done"
    /\ Len(word1) = 1 /\ Len(word2) = 4
    /\ word1[1] = word2[1]
    /\ spelling = FALSE

\* the type of the mirrored annotation
MirrorType(type) ==
    CASE type = "missing_word" -> "extra_word"
      [] type = "extra_word" -> "missing_word"
      [] OTHER -> type

\* C28: analyzeChanges(corrected, original) has its annotations at the
\* positions of analyzeChanges(original, corrected), with the original and
\* corrected fields exchanged, missing_word and extra_word exchanged and
\* spelling and grammar kept.
C28_SwapMirrors ==
    pc = "done" =>
        LET mirrored == analyzeChanges(corrected, original)
        IN /\ Len(mirrored) = Len(analysis)
           /\ \A j \in 1..Len(analysis) :
                /\ mirrored[j].position = analysis[j].position
                /\ mirrored[j].original = analysis[j].corrected
                /\ mirrored[j].corrected = analysis[j].original
                /\ mirrored[j].type = MirrorType(analysis[j].type)

\* a call with a missing word and a changed word
C28_Witness ==
    /\ pc = "done"
    /\ \E j \in 1..Len(analysis) : analysis[j].type = "missing_word"
    /\ \E j \in 1..Len(analysis) : analysis[j].type \in {"spelling", "grammar"}

\* C30: in the page the proofread button is disabled as long as a request
\* started by the page is in flight, at most one request is in flight at a
\* time, and once every request has settled the button is enabled again.
C30_ButtonGuardsRequests ==
    /\ InFlight # {} => disabled
    /\ Cardinality(InFlight) <= 1
    /\ (calls # <<>> /\ InFlight = {}) => ~disabled

TypeOK ==
    /\ pc \in {"call", "done"}
    /\ spelling \in BOOLEAN
    /\ \A k \in 1..Len(analysis) :
         analysis[k].type \in {"missing_word", "extra_word", "spelling",
                               "capitalization", "grammar", "unknown"}
=============================================================================
